---- MODULE Spec2Model ----
(***************************************************************************)
(* A model of pytools' OME-NGFF Zarr image classes:                        *)
(*   src/pytools/HedwigZarrImage.py   class HedwigZarrImage                *)
(*   src/pytools/HedwigZarrImages.py  class HedwigZarrImage (older copy)   *)
(*                                    class HedwigZarrImages               *)
(*                                                                         *)
(* Three specifications share the variables:                               *)
(*   SpecRechunk  HedwigZarrImage.rechunk on a zarr group, step by step     *)
(*   SpecShader   dims, shader_type and neuroglancer_shader_parameters      *)
(*   SpecCatalog  HedwigZarrImages.get_series_keys, __getitem__, series     *)
(***************************************************************************)
EXTENDS Integers, Sequences, FiniteSets, TLC

VARIABLES
    \* ---- the zarr group of one image, and a rechunk call in progress ----
    multiscales,    \* zarr_group.attrs["multiscales"]
    store,          \* the arrays of the group: name -> array
    pc,             \* where the rechunk call is
    chunk_size,     \* the call's argument
    img_i,          \* position of "for image in ..."
    ds_i,           \* position of "for dataset in image['datasets']"
    chunks,         \* the chunk tuple computed for the current array
    err,            \* the exception the call ended with
    calls,          \* rechunk calls made so far
    store0,         \* the store when the current call began
    prev,           \* the previous call: its argument and how it ended
    ops,            \* what the current call has done so far
    \* ---- one image object, its OME-XML, and a shader call in progress ----
    klass,          \* the file whose class HedwigZarrImage the object is of
    rgb,            \* ome_info.maybe_rgb(ome_idx)
    channel_names,  \* ome_info.channel_names(ome_idx)
    n_series,       \* len(ome_info.image_names())
    spc,            \* where neuroglancer_shader_parameters is
    local_type,     \* its local _shader_type
    mad_scale,      \* its argument
    stats,          \* what _visual_min_max computes from the pixels
    ch,             \* position of "for c, c_name in enumerate(...)"
    n_stats,        \* _visual_min_max calls that computed statistics
    params,         \* the value returned
    serr,           \* the exception raised
    dims_out,       \* the last value read from the property dims
    type_out,       \* the last value read from the property shader_type
    \* ---- a container (HedwigZarrImages) and the calls made on it ----
    group_keys,     \* zarr_root.group_keys(), in the store's order
    xml_present,    \* OME/METADATA.ome.xml exists
    image_names,    \* ome_info.image_names()
    has_series,     \* the OME group has the attribute "series"
    series_attr,    \* zarr_root["OME"].attrs["series"]
    ome_cached,     \* hasattr(self, "_ome_info")
    keys_out,       \* the last value of get_series_keys()
    item,           \* the argument of the last __getitem__
    got,            \* what the last __getitem__ returned or raised
    gpc,            \* where the generator series() is
    gpos,           \* its position in the keys
    yielded         \* the pairs it has yielded

groupVars == <<multiscales, store>>
callVars == <<pc, chunk_size, img_i, ds_i, chunks, err, calls, store0, prev, ops>>
rechunkVars == <<groupVars, callVars>>
xmlVars == <<klass, rgb, channel_names, n_series>>
shaderVars == <<spc, local_type, mad_scale, stats, ch, n_stats, params, serr,
                dims_out, type_out>>
imageVars == <<xmlVars, shaderVars>>

containerVars == <<group_keys, xml_present, image_names, has_series, series_attr>>
catalogVars == <<containerVars, ome_cached, keys_out, item, got, gpc, gpos, yielded>>

vars == <<rechunkVars, imageVars, catalogVars>>

(***************************************************************************)
(* Bounds                                                                  *)
(***************************************************************************)
\* rechunk calls made on one group
MaxCalls == 2
\* the largest chunk_size requested (array extents go up to 4)
MaxChunk == 5

ChunkSizes == (-1)..MaxChunk

(***************************************************************************)
(* The zarr group: OME-NGFF attributes and arrays                          *)
(***************************************************************************)
Axis(n, t) == [name |-> n, type |-> t]

\* bioformats2raw layout: t, c, z, y, x
Axes5D == << Axis("t", "time"), Axis("c", "channel"), Axis("z", "space"),
             Axis("y", "space"), Axis("x", "space") >>
AxesYX == << Axis("y", "space"), Axis("x", "space") >>

\* one element of attrs["multiscales"] as OME-NGFF has it: a JSON object
Pyramid5D == [axes |-> Axes5D, datasets |-> << [path |-> "0"], [path |-> "1"] >>]
Plane2D == [axes |-> AxesYX, datasets |-> << [path |-> "2"] >>]

\* A JSON value stored at attrs["multiscales"][i]. kind "dict": the object
\* images[1] itself (what OME-NGFF prescribes); kind "list": a JSON array of
\* such objects. HedwigZarrImage.__init__ only asserts that the attribute
\* exists, so both are groups the class accepts.
JsonDict(image) == [kind |-> "dict", images |-> << image >>]
JsonList(images) == [kind |-> "list", images |-> images]

MultiscalesChoices ==
    { << JsonDict(Pyramid5D) >>,
      << JsonDict(Pyramid5D), JsonDict(Plane2D) >>,
      << JsonList(<< Pyramid5D >>) >>,
      << JsonList(<< Pyramid5D, Plane2D >>) >>,
      << JsonList(<< Pyramid5D >>), JsonDict(Plane2D) >> }

ArrayShape(path) ==
    CASE path = "0" -> << 1, 3, 1, 4, 4 >>
      [] path = "1" -> << 1, 3, 1, 2, 2 >>
      [] OTHER      -> << 4, 3 >>

ArrayPaths == { "0", "1", "2" }

Min(a, b) == IF a < b THEN a ELSE b

\* chunk layouts an array may have before any rechunk
InitialChunks(shape) ==
    { shape, [i \in DOMAIN shape |-> Min(2, shape[i])] }

\* codec settings differ between the arrays, so that a copy which dropped one
\* would show
ArrayCodec(path) ==
    IF path = "1"
    THEN [compressor |-> "zlib", filters |-> "delta", dimension_separator |-> "."]
    ELSE [compressor |-> "blosc", filters |-> "none", dimension_separator |-> "/"]

NewArray(path, c) ==
    [shape |-> ArrayShape(path), chunks |-> c, data |-> path, complete |-> TRUE,
     compressor |-> ArrayCodec(path).compressor,
     filters |-> ArrayCodec(path).filters,
     dimension_separator |-> ArrayCodec(path).dimension_separator]

TempName(path) == path \o ".temp"

NoOps == [copy |-> 0, delete |-> 0, rename |-> 0, skip |-> 0]

NoStats == [min |-> 0, median |-> 0, max |-> 0, mad |-> 0]
NoParams == [kind |-> "none", window |-> << >>, range |-> << >>, channelArray |-> << >>]

NoImage == [status |-> "none", group |-> "none", ome_idx |-> -1, has_info |-> FALSE,
            error |-> "none"]

\* no container in play
NoCatalog ==
    /\ group_keys = << >>
    /\ xml_present = FALSE
    /\ image_names = << >>
    /\ has_series = FALSE
    /\ series_attr = << >>
    /\ ome_cached = FALSE
    /\ keys_out = << "unset" >>
    /\ item = "none"
    /\ got = NoImage
    /\ gpc = "idle"
    /\ gpos = 0
    /\ yielded = << >>

\* no property read and no shader call yet
NoShaderCall ==
    /\ spc = "idle"
    /\ local_type = "unset"
    /\ mad_scale = 0
    /\ stats = NoStats
    /\ ch = 0
    /\ n_stats = 0
    /\ params = NoParams
    /\ serr = "none"
    /\ dims_out = << "unset" >>
    /\ type_out = "unset"

(***************************************************************************)
(* HedwigZarrImage (src/pytools/HedwigZarrImage.py)                        *)
(***************************************************************************)
\* _ome_ngff_multiscales(idx): attrs["multiscales"][idx], 0-based
_ome_ngff_multiscales(idx) == multiscales[idx + 1]

\* what "for image in <value>" iterates: the keys of a dict, the elements of
\* a list
IterLen(v) ==
    IF v.kind = "dict" THEN Cardinality(DOMAIN v.images[1]) ELSE Len(v.images)

_chunk_logic_dim(drequest, dshape) ==
    IF dshape > drequest /\ drequest > 0 THEN drequest ELSE dshape

\* tuple(chunk_size if a["type"] == "space" else -1 for a in image["axes"])
ChunkRequest(image, n) ==
    [i \in DOMAIN image.axes |-> IF image.axes[i].type = "space" THEN n ELSE -1]

\* tuple(_chunk_logic_dim(r, s) for r, s in zip(chunk_request, arr.shape))
ChunkTuple(request, shape) ==
    [i \in 1..Min(Len(request), Len(shape)) |-> _chunk_logic_dim(request[i], shape[i])]

\* (mutant) the chunks keyword is not passed: zarr.copy keeps the source's
CreatedArrayKeepsChunks(arr, c) ==
    [shape |-> arr.shape, chunks |-> arr.chunks, data |-> "empty", complete |-> FALSE,
     compressor |-> arr.compressor, filters |-> arr.filters,
     dimension_separator |-> arr.dimension_separator]

\* (mutant) dimension_separator is not passed: the new array gets the default
CreatedArrayDefaultSeparator(arr, c) ==
    [shape |-> arr.shape, chunks |-> c, data |-> "empty", complete |-> FALSE,
     compressor |-> arr.compressor, filters |-> arr.filters,
     dimension_separator |-> "."]

\* the array zarr.copy creates under the temporary name: the source's shape
\* with the chunks, compressor, dimension_separator and filters passed
CreatedArray(arr, c) ==
    [shape |-> arr.shape, chunks |-> c, data |-> "empty", complete |-> FALSE,
     compressor |-> arr.compressor, filters |-> arr.filters,
     dimension_separator |-> arr.dimension_separator]

Remove(s, name) == [n \in DOMAIN s \ {name} |-> s[n]]

\* store.rename(src, dst)
Renamed(s, src, dst) == (dst :> s[src]) @@ Remove(s, src)

CurrentImage == _ome_ngff_multiscales(0).images[img_i]
CurrentPath == CurrentImage.datasets[ds_i].path

Raise(e) ==
    /\ pc' = "raised"
    /\ err' = e

\* rechunk(chunk_size) -> _rechunk_group(chunk_size)
rechunk(n) ==
    /\ pc \in { "idle", "returned", "raised", "crashed" }
    /\ calls < MaxCalls
    /\ calls' = calls + 1
    /\ chunk_size' = n
    /\ prev' = [n |-> chunk_size, outcome |-> pc, ops |-> ops]
    /\ store0' = store
    /\ ops' = NoOps
    /\ err' = "none"
    /\ img_i' = 1
    /\ ds_i' = 1
    /\ pc' = "images"
    /\ UNCHANGED <<multiscales, store, chunks>>
    /\ UNCHANGED <<imageVars, catalogVars>>

\* for image in self._ome_ngff_multiscales(): chunk_request = ... image["axes"]
ForImage ==
    /\ pc = "images"
    /\ LET v == _ome_ngff_multiscales(0) IN
         IF img_i > IterLen(v)
         THEN /\ pc' = "returned"
              /\ UNCHANGED <<err, ds_i>>
         ELSE IF v.kind = "dict"
         \* image is a key of the dict, a str: image["axes"] raises
         THEN /\ Raise("TypeError")
              /\ UNCHANGED ds_i
         ELSE /\ pc' = "datasets"
              /\ ds_i' = 1
              /\ UNCHANGED err
    /\ UNCHANGED <<multiscales, store, chunk_size, img_i, chunks, calls, store0,
                   prev, ops>>
    /\ UNCHANGED <<imageVars, catalogVars>>

\* for dataset in image["datasets"]: ... if arr.chunks == chunks: continue
ForDataset ==
    /\ pc = "datasets"
    /\ IF ds_i > Len(CurrentImage.datasets)
       THEN /\ img_i' = img_i + 1
            /\ pc' = "images"
            /\ UNCHANGED <<ds_i, chunks, err, ops>>
       ELSE IF CurrentPath \notin DOMAIN store
       \* arr = self.zarr_group[dataset["path"]]
       THEN /\ Raise("KeyError")
            /\ UNCHANGED <<img_i, ds_i, chunks, ops>>
       ELSE LET arr == store[CurrentPath]
                c == ChunkTuple(ChunkRequest(CurrentImage, chunk_size), arr.shape)
            IN IF arr.chunks = c
               THEN /\ ds_i' = ds_i + 1
                    /\ ops' = [ops EXCEPT !.skip = @ + 1]
                    /\ UNCHANGED <<pc, img_i, chunks, err>>
               ELSE /\ chunks' = c
                    /\ pc' = "copy"
                    /\ UNCHANGED <<img_i, ds_i, err, ops>>
    /\ UNCHANGED <<multiscales, store, chunk_size, calls, store0, prev>>
    /\ UNCHANGED <<imageVars, catalogVars>>

\* (mutant) zarr.copy replaces an object that has the temporary name
CopyOverwrites ==
    /\ pc = "copy"
    /\ TempName(CurrentPath) \in DOMAIN store
    /\ store' = [store EXCEPT ![TempName(CurrentPath)] =
                    CreatedArray(store[CurrentPath], chunks)]
    /\ pc' = "copying"
    /\ UNCHANGED <<multiscales, chunk_size, img_i, ds_i, chunks, err, calls,
                   store0, prev, ops>>
    /\ UNCHANGED <<imageVars, catalogVars>>

\* zarr.copy(..., overwrite=False): an object of the temporary name exists
CopyExists ==
    /\ pc = "copy"
    /\ TempName(CurrentPath) \in DOMAIN store
    /\ Raise("CopyError")
    /\ UNCHANGED <<multiscales, store, chunk_size, img_i, ds_i, chunks, calls,
                   store0, prev, ops>>
    /\ UNCHANGED <<imageVars, catalogVars>>

\* zarr.copy: the temporary array is created, still without the data
CopyCreate ==
    /\ pc = "copy"
    /\ TempName(CurrentPath) \notin DOMAIN store
    /\ store' = (TempName(CurrentPath) :> CreatedArray(store[CurrentPath], chunks)) @@ store
    /\ pc' = "copying"
    /\ UNCHANGED <<multiscales, chunk_size, img_i, ds_i, chunks, err, calls,
                   store0, prev, ops>>
    /\ UNCHANGED <<imageVars, catalogVars>>

\* zarr.copy: the data is written and the call returns
CopyData ==
    /\ pc = "copying"
    /\ store' = [store EXCEPT ![TempName(CurrentPath)] =
                    [@ EXCEPT !.data = store[CurrentPath].data, !.complete = TRUE]]
    /\ ops' = [ops EXCEPT !.copy = @ + 1]
    /\ pc' = "delete"
    /\ UNCHANGED <<multiscales, chunk_size, img_i, ds_i, chunks, err, calls,
                   store0, prev>>
    /\ UNCHANGED <<imageVars, catalogVars>>

\* zarr.copy fails while writing (the store raises): the exception leaves
\* _rechunk_group, the partly written temporary array stays
CopyFail ==
    /\ pc = "copying"
    /\ Raise("OSError")
    /\ UNCHANGED <<multiscales, store, chunk_size, img_i, ds_i, chunks, calls,
                   store0, prev, ops>>
    /\ UNCHANGED <<imageVars, catalogVars>>

\* (mutant) the original is deleted as soon as the temporary array exists,
\* before its data is written
DeleteBeforeCopied ==
    /\ pc \in { "copying", "delete" }
    /\ store' = Remove(store, CurrentPath)
    /\ ops' = [ops EXCEPT !.delete = @ + 1]
    /\ pc' = "rename"
    /\ UNCHANGED <<multiscales, chunk_size, img_i, ds_i, chunks, err, calls,
                   store0, prev>>
    /\ UNCHANGED <<imageVars, catalogVars>>

\* del self.zarr_group[dataset["path"]]
DeleteOriginal ==
    /\ pc = "delete"
    /\ store' = Remove(store, CurrentPath)
    /\ ops' = [ops EXCEPT !.delete = @ + 1]
    /\ pc' = "rename"
    /\ UNCHANGED <<multiscales, chunk_size, img_i, ds_i, chunks, err, calls,
                   store0, prev>>
    /\ UNCHANGED <<imageVars, catalogVars>>

\* self.zarr_group.store.rename(<temp>.name, arr_name)
RenameTemp ==
    /\ pc = "rename"
    /\ store' = Renamed(store, TempName(CurrentPath), CurrentPath)
    /\ ops' = [ops EXCEPT !.rename = @ + 1]
    /\ ds_i' = ds_i + 1
    /\ pc' = "datasets"
    /\ UNCHANGED <<multiscales, chunk_size, img_i, chunks, err, calls, store0,
                   prev>>
    /\ UNCHANGED <<imageVars, catalogVars>>

\* the process is killed in the middle of a call
Crash ==
    /\ pc \in { "images", "datasets", "copy", "copying", "delete", "rename" }
    /\ pc' = "crashed"
    /\ UNCHANGED <<multiscales, store, chunk_size, img_i, ds_i, chunks, err,
                   calls, store0, prev, ops>>
    /\ UNCHANGED <<imageVars, catalogVars>>

InitRechunk ==
    /\ multiscales \in MultiscalesChoices
    /\ \E c0 \in InitialChunks(ArrayShape("0")),
          c1 \in InitialChunks(ArrayShape("1")),
          c2 \in InitialChunks(ArrayShape("2")) :
         store = ("0" :> NewArray("0", c0)) @@ ("1" :> NewArray("1", c1))
                 @@ ("2" :> NewArray("2", c2))
    /\ pc = "idle"
    /\ chunk_size = 0
    /\ img_i = 1
    /\ ds_i = 1
    /\ chunks = << >>
    /\ err = "none"
    /\ calls = 0
    /\ store0 = store
    /\ prev = [n |-> 0, outcome |-> "idle", ops |-> NoOps]
    /\ ops = NoOps
    /\ NoShaderCall
    /\ NoCatalog
    /\ klass = "HedwigZarrImage.py"
    /\ rgb = FALSE
    /\ channel_names = << >>
    /\ n_series = 1

NextRechunk ==
    \/ \E n \in ChunkSizes : rechunk(n)
    \/ ForImage
    \/ ForDataset
    \/ CopyExists
    \/ CopyCreate
    \/ CopyData
    \/ CopyFail
    \/ DeleteOriginal
    \/ RenameTemp
    \/ Crash

SpecRechunk == InitRechunk /\ [][NextRechunk]_vars

(***************************************************************************)
(* HedwigZarrImage: dims, shape, shader_type,                              *)
(* neuroglancer_shader_parameters                                          *)
(*   klass "HedwigZarrImage.py"   the class of src/pytools/HedwigZarrImage.py  *)
(*   klass "HedwigZarrImages.py"  the class of the same name defined in    *)
(*                                src/pytools/HedwigZarrImages.py, the one *)
(*                                HedwigZarrImages.__getitem__ constructs  *)
(***************************************************************************)
\* largest statistic (min, median, max), in halves of a grey level
MaxStat == 1
\* largest median absolute deviation, in halves of a grey level
MaxMad == 1
\* largest mad_scale passed
MaxMadScale == 2

Max(a, b) == IF a > b THEN a ELSE b

\* str.upper() on the axis names OME-NGFF files of bioformats2raw carry
Upper(c) ==
    CASE c = "t" -> "T" [] c = "c" -> "C" [] c = "z" -> "Z"
      [] c = "y" -> "Y" [] c = "x" -> "X" [] OTHER -> c

\* self._ome_ngff_multiscales()["axes"], ["datasets"]: subscripts of the dict
ImageAxes == _ome_ngff_multiscales(0).images[1].axes
ImageDatasets == _ome_ngff_multiscales(0).images[1].datasets

\* _ome_ngff_multiscale_image(level): the level is ignored, datasets[0] is read
_ome_ngff_multiscale_image(level) == store[ImageDatasets[1].path]

\* the upper-cased axis names joined into one string; axis names are single
\* letters, so the string's i-th character is the i-th axis
_ome_ngff_multiscale_dims == [i \in DOMAIN ImageAxes |-> Upper(ImageAxes[i].name)]

shape == _ome_ngff_multiscale_image(0).shape

Reverse(q) == [i \in 1..Len(q) |-> q[Len(q) + 1 - i]]

\* [d for s, d in zip(shape, dims) if d in "XY" or s > 1], from position i on
RECURSIVE Kept(_, _, _)
Kept(s, d, i) ==
    IF i > Min(Len(s), Len(d)) THEN << >>
    ELSE (IF d[i] \in { "X", "Y" } \/ s[i] > 1 THEN << d[i] >> ELSE << >>)
         \o Kept(s, d, i + 1)

\* (mutant) the kept labels are joined without dims[::-1]
dimsNotReversed == Kept(shape, _ome_ngff_multiscale_dims, 1)

\* property dims: "".join(dims[::-1])
dims == Reverse(Kept(shape, _ome_ngff_multiscale_dims, 1))

\* property shader_type of src/pytools/HedwigZarrImage.py; [1] is the second
\* character
shader_type_image ==
    IF rgb THEN "RGB"
    ELSE IF _ome_ngff_multiscale_dims[2] = "C" /\ shape[2] = 1 THEN "Grayscale"
    ELSE "MultiChannel"

\* property shader_type of src/pytools/HedwigZarrImages.py
shader_type_images ==
    IF rgb THEN "RGB"
    ELSE IF n_series = 1 THEN "Grayscale"
    ELSE "MultiChannel"

shader_type ==
    IF klass = "HedwigZarrImage.py" THEN shader_type_image ELSE shader_type_images

\* math.floor and math.ceil of a value given in halves
Floor2(v) == v \div 2
Ceil2(v) == -((-v) \div 2)

\* (mutant) the window is not clamped to [min, max]
WindowUnclamped(st, m) ==
    << Floor2(st.median - st.mad * m), Ceil2(st.median + st.mad * m) >>

\* the window and range entries built from the statistics (lines 118-122,
\* 140-146)
Window(st, m) ==
    LET lo == Max(st.median - st.mad * m, st.min)
        hi == Min(st.median + st.mad * m, st.max)
    IN << Floor2(lo), Ceil2(hi) >>

Range(st) == << Floor2(st.min), Ceil2(st.max) >>

color_sequence == << "red", "green", "blue", "cyan", "yellow", "magenta" >>

\* c_name.lower() and the characters [^a-zA-Z0-9] of the names used here
Lower(c) ==
    CASE c = "D" -> "d" [] c = "A" -> "a" [] c = "P" -> "p" [] c = "I" -> "i"
      [] c = "G" -> "g" [] c = "F" -> "f" [] OTHER -> c
IsAlnum(c) == c \notin { " ", "-", "(", ")" }

\* re.sub(r"[^a-zA-Z0-9]+", "_", c_name.lower()): each run of other
\* characters becomes one underscore
RECURSIVE Sanitized(_, _)
Sanitized(name, i) ==
    IF i > Len(name) THEN << >>
    ELSE IF IsAlnum(name[i]) THEN << Lower(name[i]) >> \o Sanitized(name, i + 1)
    ELSE IF i > 1 /\ ~IsAlnum(name[i - 1]) THEN Sanitized(name, i + 1)
    ELSE << "_" >> \o Sanitized(name, i + 1)

\* one element of json_channel_array
ChannelEntry(c, c_name, st, m) ==
    [window |-> Window(st, m), range |-> Range(st), name |-> Sanitized(c_name, 1),
     color |-> color_sequence[c + 1], channel |-> c, clamp |-> FALSE, enabled |-> TRUE]

\* the names ome_info.channel_names yields, as character sequences
ChannelNamePool ==
    << << "D", "A", "P", "I" >>, << "G", "F", "P", " ", "-", "4", "8", "8" >>,
       << "c", "y", "5" >>, << "(", "a", ")" >>, << "f", "4" >>, << "i", "6" >>,
       << "p", "7" >> >>

ChannelExtents == { 1, 3, 4, 7 }
NameCounts == { 1, 3, 7 }

\* the images of the shader specification: axes and level-0 shape
ImageChoices ==
    { [axes |-> Axes5D, shape |-> << t, c, z, 4, 3 >>] :
         t \in { 1, 2 }, c \in ChannelExtents, z \in { 1, 2 } }
    \cup { [axes |-> << Axis("c", "channel"), Axis("y", "space"), Axis("x", "space") >>,
            shape |-> << c, 4, 3 >>] : c \in ChannelExtents }
    \cup { [axes |-> AxesYX, shape |-> << 4, 3 >>],
           [axes |-> << Axis("Y", "space"), Axis("X", "space") >>, shape |-> << 1, 1 >>],
           [axes |-> << Axis("z", "space"), Axis("y", "space"), Axis("x", "space") >>,
            shape |-> << 2, 4, 3 >>] }

StatValues == (-MaxStat)..MaxStat

\* histogram statistics of some pixel data: min <= median <= max, mad >= 0
StatsChoices ==
    { st \in [min : StatValues, median : StatValues, max : StatValues, mad : 0..MaxMad] :
        st.min <= st.median /\ st.median <= st.max }

ShaderRaise(e) ==
    /\ spc' = "raised"
    /\ serr' = e

\* reading the property dims
GetDims ==
    /\ spc = "idle"
    /\ dims_out' = dims
    /\ UNCHANGED <<catalogVars, rechunkVars, xmlVars, spc, local_type, mad_scale, stats, ch,
                   n_stats, params, serr, type_out>>

\* reading the property shader_type
GetShaderType ==
    /\ spc = "idle"
    /\ type_out' = shader_type
    /\ UNCHANGED <<catalogVars, rechunkVars, xmlVars, spc, local_type, mad_scale, stats, ch,
                   n_stats, params, serr, dims_out>>

\* neuroglancer_shader_parameters is called: _shader_type = self.shader_type.
\* st is what the pixel data will give when _visual_min_max reads it.
neuroglancer_shader_parameters(m, st) ==
    /\ spc = "idle"
    /\ mad_scale' = m
    /\ stats' = st
    /\ local_type' = shader_type
    /\ spc' = "dispatch"
    /\ UNCHANGED <<catalogVars, rechunkVars, xmlVars, ch, n_stats, params, serr, dims_out, type_out>>

\* the chain of "if _shader_type == ..." of src/pytools/HedwigZarrImage.py
DispatchImage ==
    /\ spc = "dispatch"
    /\ klass = "HedwigZarrImage.py"
    /\ IF local_type = "RGB"
       THEN /\ params' = [NoParams EXCEPT !.kind = "empty"]
            /\ spc' = "returned"
            /\ UNCHANGED serr
       ELSE IF local_type = "Grayscale"
       THEN /\ spc' = "gray"
            /\ UNCHANGED <<params, serr>>
       ELSE IF local_type = "MultiChannel"
       THEN /\ spc' = "multi"
            /\ UNCHANGED <<params, serr>>
       ELSE /\ ShaderRaise("RuntimeError")
            /\ UNCHANGED params
    /\ UNCHANGED <<catalogVars, rechunkVars, xmlVars, local_type, mad_scale, stats, ch, n_stats,
                   dims_out, type_out>>

\* the chain of "if self.shader_type == ..." of src/pytools/HedwigZarrImages.py:
\* "Multichannel" is never a value of shader_type
DispatchImages ==
    /\ spc = "dispatch"
    /\ klass = "HedwigZarrImages.py"
    /\ IF shader_type \in { "RGB", "Grayscale", "Multichannel" }
       THEN /\ params' = [NoParams EXCEPT !.kind = "empty"]
            /\ spc' = "returned"
            /\ UNCHANGED serr
       ELSE /\ ShaderRaise("RuntimeError")
            /\ UNCHANGED params
    /\ UNCHANGED <<catalogVars, rechunkVars, xmlVars, local_type, mad_scale, stats, ch, n_stats,
                   dims_out, type_out>>

\* Grayscale: _visual_min_max(channel=None), then window and range
Grayscale ==
    /\ spc = "gray"
    /\ IF _ome_ngff_multiscale_dims[2] # "C"
       \* assert self._ome_ngff_multiscale_dims()[1] == "C", line 236
       THEN /\ ShaderRaise("AssertionError")
            /\ UNCHANGED <<params, n_stats>>
       ELSE /\ n_stats' = n_stats + 1
            /\ params' = [NoParams EXCEPT !.kind = "gray",
                                          !.window = Window(stats, mad_scale),
                                          !.range = Range(stats)]
            /\ spc' = "returned"
            /\ UNCHANGED serr
    /\ UNCHANGED <<catalogVars, rechunkVars, xmlVars, local_type, mad_scale, stats, ch, dims_out,
                   type_out>>

\* (mutant) the asserts are compiled away or forgotten
ChannelsUnchecked == TRUE

\* the three asserts of the MultiChannel branch, lines 126-129
ChannelsConsistent ==
    /\ _ome_ngff_multiscale_dims[2] = "C"
    /\ Len(channel_names) = shape[2]
    /\ shape[2] <= Len(color_sequence)

MultiChannelChecks ==
    /\ spc = "multi"
    /\ IF ChannelsConsistent
       THEN /\ ch' = 0
            /\ spc' = "channels"
            /\ UNCHANGED serr
       ELSE /\ ShaderRaise("AssertionError")
            /\ UNCHANGED ch
    /\ UNCHANGED <<catalogVars, rechunkVars, xmlVars, local_type, mad_scale, stats, n_stats,
                   params, dims_out, type_out>>

\* one pass of "for c, c_name in enumerate(channel_names)", lines 133-153
MultiChannelStep ==
    /\ spc = "channels"
    /\ ch < Len(channel_names)
    /\ IF _ome_ngff_multiscale_dims[2] # "C"
       \* _visual_min_max: assert on line 236
       THEN /\ ShaderRaise("AssertionError")
            /\ UNCHANGED <<params, n_stats, ch>>
       ELSE IF ch >= shape[2]
       \* da[:, channel, ...]: index out of bounds
       THEN /\ ShaderRaise("IndexError")
            /\ UNCHANGED <<params, n_stats, ch>>
       ELSE IF ch >= Len(color_sequence)
       \* color_sequence[c], after the statistics were computed
       THEN /\ ShaderRaise("IndexError")
            /\ n_stats' = n_stats + 1
            /\ UNCHANGED <<params, ch>>
       ELSE /\ n_stats' = n_stats + 1
            /\ params' = [params EXCEPT !.channelArray =
                            Append(@, ChannelEntry(ch, channel_names[ch + 1], stats, mad_scale))]
            /\ ch' = ch + 1
            /\ UNCHANGED <<spc, serr>>
    /\ UNCHANGED <<catalogVars, rechunkVars, xmlVars, local_type, mad_scale, stats, dims_out,
                   type_out>>

\* return {"brightness": 0.0, "contrast": 0.0, "channelArray": json_channel_array}
MultiChannelReturn ==
    /\ spc = "channels"
    /\ ch = Len(channel_names)
    /\ params' = [params EXCEPT !.kind = "multi"]
    /\ spc' = "returned"
    /\ UNCHANGED <<catalogVars, rechunkVars, xmlVars, local_type, mad_scale, stats, ch, n_stats,
                   serr, dims_out, type_out>>

\* an image object on an OME-NGFF group with one multiscales entry and one
\* level, with the OME-XML facts the class asks ome_info for
InitShader ==
    /\ \E im \in ImageChoices :
         /\ multiscales = << JsonDict([axes |-> im.axes, datasets |-> << [path |-> "0"] >>]) >>
         /\ store = ("0" :> [NewArray("0", im.shape) EXCEPT !.shape = im.shape])
    /\ klass \in { "HedwigZarrImage.py", "HedwigZarrImages.py" }
    /\ rgb \in BOOLEAN
    /\ \E n \in NameCounts : channel_names = SubSeq(ChannelNamePool, 1, n)
    /\ n_series \in { 1, 2 }
    /\ NoShaderCall
    /\ NoCatalog
    /\ pc = "idle"
    /\ chunk_size = 0
    /\ img_i = 1
    /\ ds_i = 1
    /\ chunks = << >>
    /\ err = "none"
    /\ calls = 0
    /\ store0 = store
    /\ prev = [n |-> 0, outcome |-> "idle", ops |-> NoOps]
    /\ ops = NoOps

NextShader ==
    \/ GetDims
    \/ GetShaderType
    \/ \E m \in 0..MaxMadScale, st \in StatsChoices : neuroglancer_shader_parameters(m, st)
    \/ DispatchImage
    \/ DispatchImages
    \/ Grayscale
    \/ MultiChannelChecks
    \/ MultiChannelStep
    \/ MultiChannelReturn

SpecShader == InitShader /\ [][NextShader]_vars

(***************************************************************************)
(* HedwigZarrImages (src/pytools/HedwigZarrImages.py)                      *)
(***************************************************************************)
Elements(q) == { q[i] : i \in DOMAIN q }

\* the nodes zarr_root[...] finds: the subgroups of the root
Nodes == Elements(group_keys)

\* groups that carry the attribute "multiscales"
HasMultiscales(g) == g # "OME"

\* property ome_xml_path is not None
HasXmlPath == "OME" \in Elements(group_keys) /\ xml_present

\* property ome_info is truthy: cached, or read now from ome_xml_path
HasOmeInfo == ome_cached \/ HasXmlPath

IsNotOME(x) == x # "OME"

\* get_series_keys()
get_series_keys ==
    IF HasOmeInfo THEN image_names ELSE SelectSeq(group_keys, IsNotOME)

Raised(e) == [NoImage EXCEPT !.status = "raised", !.error = e]

\* HedwigZarrImage(zarr_grp, _ome_info, _ome_idx)
HedwigZarrImage(g, info, idx) ==
    IF HasMultiscales(g)
    THEN [NoImage EXCEPT !.status = "returned", !.group = g, !.ome_idx = idx,
                         !.has_info = info]
    ELSE Raised("AssertionError")

\* __getitem__(item)
GetItemResult(it) ==
    LET keys == get_series_keys
        hits == { i \in DOMAIN keys : keys[i] = it }
    IN IF hits # {}
       THEN LET k == CHOOSE i \in hits : \A j \in hits : i <= j IN
              \* self.zarr_root["OME"].attrs["series"]
              IF "OME" \notin Nodes \/ ~has_series THEN Raised("KeyError")
              \* ome_index_to_zarr_group[k_idx]
              ELSE IF k > Len(series_attr) THEN Raised("IndexError")
              \* self.zarr_root[zarr_idx]
              ELSE IF series_attr[k] \notin Nodes THEN Raised("KeyError")
              ELSE HedwigZarrImage(series_attr[k], HasOmeInfo, k - 1)
       \* line 234: HedwigZarrImage(self.zarr_root[item]), two arguments short
       ELSE IF it \notin Nodes THEN Raised("KeyError")
       ELSE Raised("TypeError")

GetSeriesKeys ==
    /\ keys_out' = get_series_keys
    /\ ome_cached' = HasOmeInfo
    /\ UNCHANGED <<rechunkVars, imageVars, containerVars, item, got, gpc, gpos, yielded>>

GetItem(it) ==
    /\ item' = it
    /\ got' = GetItemResult(it)
    /\ ome_cached' = HasOmeInfo
    /\ UNCHANGED <<rechunkVars, imageVars, containerVars, keys_out, gpc, gpos, yielded>>

\* series() is called and iterated
SeriesStart ==
    /\ gpc \in { "idle", "done", "raised" }
    /\ gpc' = "running"
    /\ gpos' = 1
    /\ yielded' = << >>
    /\ ome_cached' = HasOmeInfo
    /\ UNCHANGED <<rechunkVars, imageVars, containerVars, keys_out, item, got>>

\* for k in self.get_series_keys(): yield k, self[k]
SeriesNext ==
    /\ gpc = "running"
    /\ IF gpos > Len(get_series_keys)
       THEN /\ gpc' = "done"
            /\ UNCHANGED <<gpos, yielded, item, got>>
       ELSE LET k == get_series_keys[gpos]
                r == GetItemResult(k)
            IN /\ item' = k
               /\ got' = r
               /\ IF r.status = "raised"
                  THEN /\ gpc' = "raised"
                       /\ UNCHANGED <<gpos, yielded>>
                  ELSE /\ yielded' = Append(yielded, [name |-> k, image |-> r])
                       /\ gpos' = gpos + 1
                       /\ UNCHANGED gpc
    /\ UNCHANGED <<rechunkVars, imageVars, containerVars, ome_cached, keys_out>>

GroupKeyChoices ==
    { << "0", "1", "OME" >>, << "OME", "1", "0" >>, << "0", "OME" >>,
      << "0", "1" >>, << "1", "0" >>, << "0" >> }

\* series names an OME-XML may give to n images
ImageNameChoices(n) ==
    IF n = 1 THEN { << "img_a" >>, << "0" >> }
    ELSE { << "img_a", "img_b" >>, << "img_b", "0" >>, << "label image", "OME" >> }

\* the tables the attribute "series" may hold for the image groups
SeriesChoices(keys) ==
    LET groups == SelectSeq(keys, IsNotOME) IN { groups, Reverse(groups) }

ItemPool == { "img_a", "img_b", "label image", "0", "1", "OME", "nope" }

\* HedwigZarrImages(zarr_path): a container as bioformats2raw writes it, with
\* or without the OME group, its XML file and its "series" attribute
InitCatalog ==
    /\ group_keys \in GroupKeyChoices
    /\ xml_present \in BOOLEAN
    /\ xml_present => "OME" \in Elements(group_keys)
    /\ IF xml_present
       THEN image_names \in ImageNameChoices(Len(SelectSeq(group_keys, IsNotOME)))
       ELSE image_names = << >>
    /\ has_series \in BOOLEAN
    /\ has_series => "OME" \in Elements(group_keys)
    /\ IF has_series
       THEN series_attr \in SeriesChoices(group_keys)
       ELSE series_attr = << >>
    /\ ome_cached = FALSE
    /\ keys_out = << "unset" >>
    /\ item = "none"
    /\ got = NoImage
    /\ gpc = "idle"
    /\ gpos = 0
    /\ yielded = << >>
    /\ NoShaderCall
    /\ klass = "HedwigZarrImages.py"
    /\ rgb = FALSE
    /\ channel_names = << >>
    /\ n_series = 1
    /\ multiscales = << JsonDict(Plane2D) >>
    /\ store = ("2" :> NewArray("2", ArrayShape("2")))
    /\ pc = "idle"
    /\ chunk_size = 0
    /\ img_i = 1
    /\ ds_i = 1
    /\ chunks = << >>
    /\ err = "none"
    /\ calls = 0
    /\ store0 = store
    /\ prev = [n |-> 0, outcome |-> "idle", ops |-> NoOps]
    /\ ops = NoOps

NextCatalog ==
    \/ GetSeriesKeys
    \/ \E it \in ItemPool : GetItem(it)
    \/ SeriesStart
    \/ SeriesNext

SpecCatalog == InitCatalog /\ [][NextCatalog]_vars

(***************************************************************************)
(* Rechunk: the claims                                                     *)
(***************************************************************************)
\* the group is laid out as OME-NGFF prescribes: every multiscales entry is
\* a JSON object
WellFormedGroup == \A i \in DOMAIN multiscales : multiscales[i].kind = "dict"

\* a complete copy of the data that array `path` held at the start
HasCompleteCopy(s, path) ==
    \/ /\ path \in DOMAIN s
       /\ s[path].complete
       /\ s[path].data = path
    \/ /\ TempName(path) \in DOMAIN s
       /\ s[TempName(path)].complete
       /\ s[TempName(path)].data = path

\* C1: in every reachable state (also after a failed copy or a crash at any
\* step) each array's data is complete under its own name or under its
\* temporary name; the original is gone only while a complete temporary copy
\* is present; and a call that ended in a failure of the copy step left the
\* original array exactly as it was when the call began.
C1_NoDataLoss ==
    /\ \A path \in ArrayPaths : HasCompleteCopy(store, path)
    /\ \A path \in ArrayPaths :
         path \notin DOMAIN store =>
            /\ TempName(path) \in DOMAIN store
            /\ store[TempName(path)].complete
    /\ (pc \in { "delete", "rename" }) =>
            /\ TempName(CurrentPath) \in DOMAIN store
            /\ store[TempName(CurrentPath)].complete
    /\ (pc = "raised" /\ err \in { "CopyError", "OSError" }) =>
            /\ CurrentPath \in DOMAIN store
            /\ store[CurrentPath] = store0[CurrentPath]

\* C1 witness: an array is being replaced: its original entry is deleted and
\* the data lives under the temporary name only
C1_Witness ==
    /\ pc \in { "rename", "crashed" }
    /\ \E path \in ArrayPaths :
         /\ path \notin DOMAIN store
         /\ TempName(path) \in DOMAIN store

\* C1 witness of the failure half is part of the same run: see CopyFail

\* the chunk tuple the specification asks for: N on a space axis when
\* 0 < N < extent, the full extent otherwise and on every other axis
WantedChunks(axes, extents, n) ==
    [i \in DOMAIN extents |->
        IF axes[i].type = "space" /\ 0 < n /\ n < extents[i] THEN n ELSE extents[i]]

LayoutEverywhere ==
    \A e \in DOMAIN multiscales :
      \A k \in DOMAIN multiscales[e].images :
        LET image == multiscales[e].images[k] IN
          \A d \in DOMAIN image.datasets :
            LET path == image.datasets[d].path IN
              /\ path \in DOMAIN store
              /\ store[path].chunks = WantedChunks(image.axes, store[path].shape, chunk_size)

\* C2 (as claimed): once rechunk(image, N) is over on an OME-NGFF group whose
\* store did not fail, every array named by every dataset of every
\* multiscales entry has the wanted chunk tuple. The code violates it.
C2_LayoutAfterRechunk ==
    ( /\ WellFormedGroup
      /\ calls > 0
      /\ pc \in { "returned", "raised" }
      /\ err \notin { "CopyError", "OSError", "KeyError" } )
    => LayoutEverywhere

\* a call with the same N directly after a call that returned
RepeatedCall ==
    /\ calls >= 2
    /\ prev.outcome = "returned"
    /\ prev.n = chunk_size

\* datasets the loop of _rechunk_group visits
VisitedDatasets ==
    LET v == _ome_ngff_multiscales(0) IN
      { << k, d >> \in (DOMAIN v.images) \X (1..2) : d \in DOMAIN v.images[k].datasets }

\* C3: a second rechunk with the same N, after the first returned, copies,
\* deletes and renames nothing, leaves every chunk layout as it found it, and
\* returns having taken the "chunks already equal" branch for every array.
C3_Idempotent ==
    RepeatedCall =>
        /\ ops.copy = 0 /\ ops.delete = 0 /\ ops.rename = 0
        /\ pc \notin { "copy", "copying", "delete", "rename", "raised" }
        /\ DOMAIN store = DOMAIN store0
        /\ \A path \in DOMAIN store : store[path].chunks = store0[path].chunks
        /\ (pc = "returned" => ops.skip = Cardinality(VisitedDatasets))

\* C3 witness: the first call rewrote arrays, the second has returned
C3_Witness ==
    /\ RepeatedCall
    /\ pc = "returned"
    /\ prev.ops.copy > 0
    /\ ops.skip > 0

\* every array is where it was when the call began, the same but for chunks
SameButChunks ==
    /\ DOMAIN store = DOMAIN store0
    /\ \A name \in DOMAIN store :
         store[name] = [store0[name] EXCEPT !.chunks = store[name].chunks]

NoTemporary == \A path \in ArrayPaths : TempName(path) \notin DOMAIN store

\* C4 (as claimed): after rechunk returns every array has its name, shape,
\* contents and codec settings unchanged and no temporary array is in the
\* group. Violated when a temporary array was in the group before the call.
C4_OnlyLayoutChanges_Original ==
    pc = "returned" => (SameButChunks /\ NoTemporary)

\* C4 (amended): after rechunk returns every array has its name, shape,
\* contents and codec settings unchanged, and the group holds no temporary
\* array that was not there when the call began.
C4_OnlyLayoutChanges ==
    pc = "returned" => SameButChunks

\* C4 witness: a call that rewrote an array has returned
C4_Witness ==
    /\ pc = "returned"
    /\ ops.rename > 0
    /\ \E path \in ArrayPaths : store[path].chunks # store0[path].chunks

(***************************************************************************)
(* dims, shader_type, neuroglancer_shader_parameters: the claims           *)
(***************************************************************************)
\* the label of the i-th declared axis
Label(i) == Upper(ImageAxes[i].name)

\* the axes the specification keeps: X, Y, and every axis of extent > 1
KeptAxes == { i \in DOMAIN ImageAxes : Label(i) \in { "X", "Y" } \/ shape[i] > 1 }

\* where a kept axis stands once the kept labels are put in reversed order
RankFromEnd(i) == Cardinality({ k \in KeptAxes : k >= i })

Labels(q) == { q[j] : j \in DOMAIN q }

\* C5: dims is the labels of the kept axes (X, Y, or extent > 1) in reversed
\* storage order; so it holds no other axis of extent 1 and holds X and Y
\* whenever they are declared.
C5_Dims ==
    dims_out # << "unset" >> =>
        /\ Len(dims_out) = Cardinality(KeptAxes)
        /\ \A i \in KeptAxes : dims_out[RankFromEnd(i)] = Label(i)
        /\ \A i \in DOMAIN ImageAxes :
             (Label(i) \notin { "X", "Y" } /\ shape[i] = 1) => Label(i) \notin Labels(dims_out)
        /\ \A i \in DOMAIN ImageAxes :
             Label(i) \in { "X", "Y" } => Label(i) \in Labels(dims_out)

\* C5 witness: storage axes TCZYX with T = 1, C = 3, Z = 1 read as "XYC"
C5_Witness ==
    /\ Len(ImageAxes) = 5
    /\ shape[1] = 1 /\ shape[2] = 3 /\ shape[3] = 1
    /\ dims_out = << "X", "Y", "C" >>

\* the image's channel axis, if it declares one
ChannelAxes == { i \in DOMAIN ImageAxes : ImageAxes[i].type = "channel" }
HasChannelAxis == ChannelAxes # {}
ChannelExtent == shape[CHOOSE i \in ChannelAxes : TRUE]

\* C6 (as claimed): shader_type is RGB when the XML marks the image RGB;
\* otherwise Grayscale exactly when the channel axis has extent 1, whatever
\* the number of series; otherwise MultiChannel. Stated for the images whose
\* channel axis is the second axis, where both classes look for it. The
\* code violates it.
C6_ShaderTypeDecision ==
    (type_out # "unset" /\ ChannelAxes = { 2 }) =>
        /\ type_out \in { "RGB", "Grayscale", "MultiChannel" }
        /\ rgb => type_out = "RGB"
        /\ ~rgb => (type_out = "Grayscale" <=> ChannelExtent = 1)
        /\ (~rgb /\ ChannelExtent # 1) => type_out = "MultiChannel"

\* the 2-axis image of the scenario: axes [y, x], both of type space
TwoAxisImage ==
    /\ Len(ImageAxes) = 2
    /\ \A i \in DOMAIN ImageAxes : ImageAxes[i].type = "space"
    /\ dims = << "X", "Y" >>

\* C7 (as claimed): for a non-RGB image with axes [y, x], shader_type is
\* Grayscale, and neuroglancer_shader_parameters does not raise and returns
\* window [lo, hi] and range [min, max] with lo <= median <= hi, min <= lo and
\* hi <= max. The code violates it.
C7_TwoAxisGrayscale ==
    (TwoAxisImage /\ ~rgb) =>
        /\ type_out # "unset" => type_out = "Grayscale"
        /\ spc # "raised"
        /\ spc = "returned" =>
             /\ params.kind = "gray"
             /\ 2 * params.window[1] <= stats.median
             /\ stats.median <= 2 * params.window[2]
             /\ params.range[1] <= params.window[1]
             /\ params.window[2] <= params.range[2]

\* the channel names and the channel axis disagree, or the channels do not
\* fit the palette
ChannelMismatch ==
    /\ HasChannelAxis
    /\ \/ Len(channel_names) # ChannelExtent
       \/ ChannelExtent > 6

\* C8: for an image classified MultiChannel whose channel-name count differs
\* from the channel axis extent, or whose extent exceeds the palette of 6,
\* neuroglancer_shader_parameters raises: it never reaches the channel loop,
\* computes no statistics, builds no channelArray and returns nothing.
C8_MismatchRaises ==
    (local_type = "MultiChannel" /\ ChannelMismatch) =>
        /\ spc \in { "dispatch", "multi", "raised" }
        /\ n_stats = 0
        /\ params = NoParams
        /\ spc = "raised" => serr \in { "AssertionError", "RuntimeError" }

\* C8 witness: 3 channel names, channel axis of extent 4, the assert raised
C8_Witness ==
    /\ local_type = "MultiChannel"
    /\ klass = "HedwigZarrImage.py"
    /\ HasChannelAxis
    /\ Len(channel_names) = 3
    /\ ChannelExtent = 4
    /\ spc = "raised"
    /\ serr = "AssertionError"

(***************************************************************************)
(* Catalog: the claims                                                     *)
(***************************************************************************)
ListedNames == Elements(get_series_keys)

\* position of a listed name in get_series_keys(), counted from 1
ListIndex(name) ==
    CHOOSE i \in DOMAIN get_series_keys :
        /\ get_series_keys[i] = name
        /\ \A j \in DOMAIN get_series_keys : get_series_keys[j] = name => i <= j

OnePairPerName ==
    /\ Len(yielded) = Len(get_series_keys)
    /\ \A i \in DOMAIN yielded :
         /\ yielded[i].name = get_series_keys[i]
         /\ yielded[i].image.status = "returned"

\* C9: __getitem__ of a name listed by get_series_keys returns an image: with
\* the XML present the i-th name gives the group in entry i of the "series"
\* table with ome_idx i, without the XML it gives the subgroup of that name;
\* series() yields one (name, image) pair per listed name, in list order.
C9_ListedNamesResolve ==
    /\ item \in ListedNames =>
         /\ got.status = "returned"
         /\ HasXmlPath =>
              /\ has_series
              /\ got.group = series_attr[ListIndex(item)]
              /\ got.ome_idx = ListIndex(item) - 1
         /\ ~HasXmlPath => got.group = item
    /\ gpc # "raised"
    /\ gpc = "done" => OnePairPerName

\* C10: __getitem__ of a name that get_series_keys does not list raises the
\* lookup error of a missing series (KeyError), also when the name is the
\* path of a group of the container, and returns no image.
C10_UnknownNameNotFound ==
    (item # "none" /\ item \notin ListedNames) =>
        /\ got.status = "raised"
        /\ got.error = "KeyError"

(***************************************************************************)
(* Shader parameters: window and range                                     *)
(***************************************************************************)
\* the {window, range} pairs emitted so far by the call
EmittedWindows ==
    (IF params.kind = "gray" THEN { [window |-> params.window, range |-> params.range] }
     ELSE { })
    \cup { [window |-> params.channelArray[i].window, range |-> params.channelArray[i].range] :
             i \in DOMAIN params.channelArray }

Ordered(e) ==
    /\ e.range[1] <= e.window[1]
    /\ e.window[1] <= e.window[2]
    /\ e.window[2] <= e.range[2]

\* an all-constant array: mad = 0 and min = median = max
ConstantArray == stats.mad = 0 /\ stats.min = stats.median /\ stats.median = stats.max

\* statistics are in halves: an even number is an integer grey level
IsInteger(v) == v % 2 = 0

\* C11 (as stated): every emitted window lies inside its range with
\* range[0] <= window[0] <= window[1] <= range[1], and for an all-constant
\* array the window collapses to the single value.
C11_WindowInRange_Original ==
    \A e \in EmittedWindows :
        /\ Ordered(e)
        /\ ConstantArray => e.window[1] = e.window[2]

\* C11 (amended): every emitted window lies inside its range with
\* range[0] <= window[0] <= window[1] <= range[1]; for an all-constant array
\* of value v the window is [floor(v), ceil(v)], the single value v when v is
\* an integer and of width 1 otherwise.
C11_WindowInRange ==
    \A e \in EmittedWindows :
        /\ Ordered(e)
        /\ ConstantArray =>
             /\ e.window = << Floor2(stats.min), Ceil2(stats.min) >>
             /\ e.window = e.range
             /\ IsInteger(stats.min) => e.window[1] = e.window[2]
             /\ ~IsInteger(stats.min) => e.window[2] = e.window[1] + 1

\* a MultiChannel call returned three channel entries computed from a constant
\* array whose value is not an integer
C11_Witness ==
    /\ spc = "returned"
    /\ params.kind = "multi"
    /\ Len(params.channelArray) = 3
    /\ ConstantArray
    /\ ~IsInteger(stats.min)
    /\ mad_scale > 0

(***************************************************************************)
(* Shader parameters: the final raise                                      *)
(***************************************************************************)
\* the call ended in raise RuntimeError('Unknown shader type: ...')
UnknownShaderType == spc = "raised" /\ serr = "RuntimeError"

\* C12: neuroglancer_shader_parameters never reaches its final raise of
\* 'Unknown shader type': for each value of shader_type (RGB, Grayscale,
\* MultiChannel) it takes the branch of that value.
C12_UnknownTypeUnreachable ==
    /\ ~UnknownShaderType
    /\ spc # "idle" => local_type \in { "RGB", "Grayscale", "MultiChannel" }
    /\ spc = "gray" => local_type = "Grayscale"
    /\ spc \in { "multi", "channels" } => local_type = "MultiChannel"
    /\ (spc = "returned" /\ local_type = "RGB") => params.kind = "empty"

(***************************************************************************)
(* Rechunk: a temporary array left in the group                            *)
(***************************************************************************)
\* the array paths the loop of _rechunk_group visits
VisitedPaths ==
    LET v == _ome_ngff_multiscales(0) IN
      { v.images[vd[1]].datasets[vd[2]].path : vd \in VisitedDatasets }

\* the array and its temporary sibling are as they were when the call began
Untouched(path) ==
    /\ path \in DOMAIN store
    /\ path \in DOMAIN store0
    /\ store[path] = store0[path]
    /\ TempName(path) \in DOMAIN store
    /\ TempName(path) \in DOMAIN store0
    /\ store[TempName(path)] = store0[TempName(path)]

\* C13: when <name>.temp is in the group as rechunk reaches an array whose
\* layout must change, the copy fails (CopyError) and the call stops with the
\* original and the temporary array as they were; the copy, delete and rename
\* steps run only for arrays with no temporary sibling at the start of the
\* call, and a call returns only if every array with such a sibling was
\* skipped and left alone.
C13_ExistingTempStops ==
    /\ (pc = "raised" /\ err = "CopyError") =>
          /\ Untouched(CurrentPath)
          /\ HasCompleteCopy(store, CurrentPath)
    /\ pc \in { "copying", "delete", "rename" } =>
          TempName(CurrentPath) \notin DOMAIN store0
    /\ (pc = "raised" /\ err = "OSError") =>
          TempName(CurrentPath) \notin DOMAIN store0
    /\ pc = "returned" =>
          \A path \in VisitedPaths :
              TempName(path) \in DOMAIN store0 => Untouched(path)

\* C13 witness: the first call was killed after its copy step, leaving a
\* complete temporary array; the second call reached that array and stopped
\* with CopyError
C13_Witness ==
    /\ calls = 2
    /\ prev.outcome = "crashed"
    /\ pc = "raised"
    /\ err = "CopyError"
    /\ store[TempName(CurrentPath)].complete
    /\ store[CurrentPath].complete

====
